---- MODULE Spec2Model ----
(***************************************************************************)
(* Data-access layer of the TabF1 dashboard (src/f1_dashboard.py): the     *)
(* disk-persisted response cache (get_cache, set_cache, fetch_with_cache)  *)
(* and the season reconciliation (get_all_races_season).                   *)
(*                                                                         *)
(* Spec        fetch_with_cache executed statement by statement, with the  *)
(*             clock advancing and the process terminating at any point.   *)
(* SpecSeason  get_all_races_season, one action per loop iteration, each   *)
(*             fetch_with_cache call taken as a whole.                     *)
(* SpecConc    two fetch_with_cache calls interleaved, each loading the    *)
(*             file, fetching and saving.                                  *)
(* SpecTwice   get_all_races_season called again after a call has ended,   *)
(*             with the previous call's outcome kept for comparison.       *)
(* SpecUI      the load handlers of the main screen and the race screen.   *)
(* SpecLastN   get_driver_last_results / get_constructor_last_results.     *)
(* SpecApp     the four entry points together, one call at a time.         *)
(***************************************************************************)
EXTENDS Integers, Sequences, FiniteSets, TLC

(* ------------------------------- bounds -------------------------------- *)
MaxClock == 3
MaxCalls == 2

(* ---------------------------- file system ------------------------------ *)
CACHE_FILE == "f1_cache.json"

TmpPathInPlace == CACHE_FILE

tmp_path == "f1_cache.json.tmp"

Paths == {CACHE_FILE, "f1_cache.json.tmp"}

(* Cache keys: f"drivers_{year}", f"race_schedule_{season}",                *)
(* f"race_results_{season}_{round_num}" as the tuple of their parts.       *)
Season == 2025
Keys == {<<"drivers", Season>>, <<"constructors", Season>>}
NoKey == <<"drivers", Season>>

(* JSON payloads of the API.  shape "ok": the envelope                     *)
(* {"MRData": {"RaceTable": {"Races": races}}}; "nokeys": an object with   *)
(* an intermediate key missing; "bad": a JSON value on which .get raises   *)
(* (a list, or an envelope with a null inside).                            *)
(* MRData.total of a payload is the text of the integer n, a value int()   *)
(* rejects, or absent.                                                     *)
TotalText(n) == [tag |-> "int", n |-> n]
BadTotal == [tag |-> "bad", n |-> 0]
NoTotal == [tag |-> "absent", n |-> 0]
Envelope(races) == [shape |-> "ok", races |-> races, total |-> NoTotal]
Meta(total) == [shape |-> "ok", races |-> <<>>, total |-> total]
NoKeysPayload == [shape |-> "nokeys", races |-> <<>>, total |-> NoTotal]
BadPayload == [shape |-> "bad", races |-> <<>>, total |-> NoTotal]
NoPayload == [shape |-> "none", races |-> <<>>, total |-> NoTotal]
Payloads == {Envelope(<<>>), NoKeysPayload}

(* The text datetime.isoformat() produces for the instant n, and the other *)
(* values a "time" field can hold.                                         *)
isoformat(n) == [tag |-> "iso", t |-> n]
BadTime == [tag |-> "bad", t |-> 0]
NoTime == [tag |-> "absent", t |-> 0]

(* datetime.fromisoformat: defined on ISO texts only, raises otherwise.    *)
fromisoformat(s) == IF s.tag = "iso" THEN [ok |-> TRUE, t |-> s.t]
                                     ELSE [ok |-> FALSE, t |-> 0]

(* A value stored under a key: a JSON object with "time" and "data", or    *)
(* any other JSON value (form "other").                                    *)
Entry(tm, d) == [form |-> "dict", time |-> tm, data |-> d]
OtherEntry == [form |-> "other", time |-> NoTime, data |-> NoPayload]

(* Python values json.load can return for the cache file.  shape "dict":   *)
(* map is the mapping.  shape "list": elems are the keys for which         *)
(* `key in cache` is true; item assignment raises.  shape "num": `in` and  *)
(* item assignment raise.  shape "falsy": null, 0, false, "", [] and {}.   *)
EmptyMap == [k \in {} |-> OtherEntry]
Dict(m) == [shape |-> "dict", map |-> m, elems |-> {}]
EmptyDict == Dict(EmptyMap)
NonDict(sh, el) == [shape |-> sh, map |-> EmptyMap, elems |-> el]

(* Contents of a file.                                                     *)
Missing == [kind |-> "missing", val |-> EmptyDict]
ZeroLength == [kind |-> "empty", val |-> EmptyDict]
Garbage == [kind |-> "garbage", val |-> EmptyDict]
Partial == [kind |-> "partial", val |-> EmptyDict]
Unreadable == [kind |-> "unreadable", val |-> EmptyDict]
JsonFile(v) == [kind |-> "json", val |-> v]

(* json.dump(data, f) after the last byte is written.                      *)
JsonDump(data) == JsonFile(data)

GetCacheAnew(f) == EmptyDict

(* get_cache(): what the call returns for the file content f.              *)
get_cache(f) ==
    IF f.kind = "missing" THEN EmptyDict
    ELSE IF f.kind = "empty" THEN EmptyDict
    ELSE IF f.kind # "json" THEN EmptyDict
    ELSE IF f.val.shape = "falsy" THEN EmptyDict
    ELSE f.val

(* os.replace(src, dst)                                                    *)
Rename(fs, src, dst) ==
    IF src = dst THEN fs ELSE [fs EXCEPT ![dst] = fs[src], ![src] = Missing]

(* ------------------------------ network -------------------------------- *)
(* Outcomes of requests.get(url, timeout=8): an exception (timeout,        *)
(* connection error) or a response with a status class and a body that is  *)
(* JSON (payload) or not.                                                  *)
Http(st, js, p) == [kind |-> "http", status |-> st, json |-> js, payload |-> p]
NoResponse == [kind |-> "none", status |-> "-", json |-> FALSE, payload |-> NoPayload]
Responses ==
    { [kind |-> "timeout", status |-> "-", json |-> FALSE, payload |-> NoPayload],
      [kind |-> "connerr", status |-> "-", json |-> FALSE, payload |-> NoPayload],
      Http("4xx", FALSE, NoPayload), Http("5xx", FALSE, NoPayload),
      Http("3xx", FALSE, NoPayload), Http("3xx", TRUE, NoKeysPayload),
      Http("2xx", FALSE, NoPayload) }
    \cup { Http("2xx", TRUE, p) : p \in Payloads }

(* requests.get raises instead of returning a response.                    *)
GetRaises(r) == r.kind \in {"timeout", "connerr"}

(* Response.raise_for_status(): raises HTTPError for 4xx and 5xx.          *)
raise_for_status(r) == r.status \in {"4xx", "5xx"}

(* Response.json() raises when the body is not JSON.                       *)
JsonRaises(r) == ~r.json

(* Lines 62-64 succeed for the response r.                                 *)
RequestOK(r) == ~GetRaises(r) /\ ~raise_for_status(r) /\ ~JsonRaises(r)

(* --------------------------- fetch_with_cache --------------------------- *)
(* Result of a call: nothing yet, a returned value, or an exception.       *)
NoResult == [st |-> "none", val |-> NoPayload]
Return(v) == [st |-> "ret", val |-> v]
Raise == [st |-> "raise", val |-> NoPayload]

(* `key in cache` (line 52): raises for a number.                          *)
InRaises(cache) == cache.shape = "num"
In(key, cache) ==
    IF cache.shape = "dict" THEN key \in DOMAIN cache.map
    ELSE key \in cache.elems

FreshHours(delta, expire_minutes) == delta < 60 * expire_minutes
FreshReversed(delta, expire_minutes) == delta > expire_minutes

(* (now - cached_time) < timedelta(minutes=expire_minutes)  (line 56)      *)
Fresh(delta, expire_minutes) == delta < expire_minutes

(* Lines 53-60 for a key that is in the cache: the cached payload when the *)
(* entry is fresh, "miss" when it is stale or the try block raised.        *)
Miss == [hit |-> FALSE, val |-> NoPayload]
TryCached(cache, key, now, expire_minutes) ==
    IF cache.shape # "dict" THEN Miss
    ELSE LET cached == cache.map[key]
             txt == IF cached.form = "dict" /\ cached.time.tag # "absent"
                    THEN cached.time ELSE isoformat(now)
             cached_time == fromisoformat(txt)
         IN IF cached.form # "dict" THEN Miss
            ELSE IF ~cached_time.ok THEN Miss
            ELSE IF Fresh(fromisoformat(isoformat(now)).t - cached_time.t,
                          expire_minutes)
                 THEN [hit |-> TRUE, val |-> cached.data]
                 ELSE Miss

LookupIgnoringForce(cache, key, now, expire_minutes, force) ==
    IF InRaises(cache) THEN [st |-> "raise", val |-> NoPayload]
    ELSE IF In(key, cache) /\ TryCached(cache, key, now, expire_minutes).hit
         THEN [st |-> "hit", val |-> TryCached(cache, key, now, expire_minutes).val]
         ELSE [st |-> "miss", val |-> NoPayload]

LookupForceInverted(cache, key, now, expire_minutes, force) ==
    IF ~force THEN [st |-> "miss", val |-> NoPayload]
    ELSE LookupIgnoringForce(cache, key, now, expire_minutes, force)

(* Lines 52-60: "hit" with the payload, "miss", or "raise".                *)
Lookup(cache, key, now, expire_minutes, force) ==
    IF force THEN [st |-> "miss", val |-> NoPayload]
    ELSE IF InRaises(cache) THEN [st |-> "raise", val |-> NoPayload]
    ELSE IF In(key, cache) /\ TryCached(cache, key, now, expire_minutes).hit
         THEN [st |-> "hit", val |-> TryCached(cache, key, now, expire_minutes).val]
         ELSE [st |-> "miss", val |-> NoPayload]

(* cache[key] = {"time": now, "data": data} (line 65): raises unless the   *)
(* cache is a dict.                                                        *)
StoreRaises(cache) == cache.shape # "dict"

StoreOnlyKey(cache, key, now, data) ==
    Dict([k \in {key} |-> Entry(isoformat(now), data)])
Store(cache, key, now, data) ==
    Dict([k \in DOMAIN cache.map \cup {key} |->
            IF k = key THEN Entry(isoformat(now), data) ELSE cache.map[k]])

(* ------------------------ get_all_races_season ------------------------- *)
MaxRaces == 2
MaxSeasonCalls == 2
MaxSeasonClock == 60
TickMinutes == 30

SCHEDULE_EXPIRE == 1440
RESULTS_EXPIRE == 60

ScheduleKey(s) == <<"race_schedule", s>>
ResultsKey(s, round_num) == <<"race_results", s, round_num>>

(* The "date" field of a schedule entry: a %Y-%m-%d text for day d, an     *)
(* empty text, a text strptime rejects, or no "date" key at all, which     *)
(* race.get("date", "") reads as the empty text (line 608).                *)
Ymd(d) == [tag |-> "ymd", d |-> d]
EmptyDate == [tag |-> "empty", d |-> 0]
BadDate == [tag |-> "bad", d |-> 0]
NoDate == [tag |-> "absent", d |-> 0]
DateSeq == <<Ymd(0), Ymd(1), Ymd(2), EmptyDate, BadDate, NoDate>>

(* Lines 608-616: race_date, None when the text is empty or unparseable.   *)
ParseDate(txt) == IF txt.tag = "ymd" THEN [ok |-> TRUE, d |-> txt.d]
                                     ELSE [ok |-> FALSE, d |-> 0]

(* A race of the API: a schedule entry has no "Results" key, a race of a   *)
(* results response may have one.  Status "" stands for no "Status" key.   *)
Race(round_num, date, has, results) ==
    [round |-> round_num, date |-> date, hasResults |-> has,
     Results |-> results, Status |-> ""]
ScheduleEntry(round_num, date) == Race(round_num, date, FALSE, <<>>)

(* Schedules of n races, rounds 1..n in ascending order, race i dated by   *)
(* the (k+i-1)-th date of DateSeq, cyclically.                             *)
Calendar(n, k) ==
    [i \in 1..n |-> ScheduleEntry(i, DateSeq[((k + i - 2) % Len(DateSeq)) + 1])]
Schedules == { Calendar(n, k) : n \in 0..MaxRaces, k \in 1..Len(DateSeq) }

ResultLists == { <<>>, <<"P1 VER", "P2 NOR">> }

(* Responses to the schedule request, for the calendar sc the API holds,   *)
(* and to the results request of one race.                                 *)
Timeout == [kind |-> "timeout", status |-> "-", json |-> FALSE, payload |-> NoPayload]
ScheduleResponses(sc) ==
    { Timeout, Http("2xx", TRUE, NoKeysPayload), Http("2xx", TRUE, BadPayload),
      Http("2xx", TRUE, Envelope(sc)) }
ResultsResponses(race) ==
    { Timeout, Http("2xx", TRUE, BadPayload), Http("2xx", TRUE, Envelope(<<>>)) }
    \cup { Http("2xx", TRUE, Envelope(<<Race(race.round, race.date, TRUE, rs)>>)) :
              rs \in ResultLists }

(* data.get("MRData", {}).get("RaceTable", {}).get("Races", [])            *)
(* (lines 599, 630): the list, [] when a key is missing, or an exception.  *)
GetRaces(payload) ==
    IF payload.shape = "ok" THEN [ok |-> TRUE, races |-> payload.races]
    ELSE IF payload.shape = "nokeys" THEN [ok |-> TRUE, races |-> <<>>]
    ELSE [ok |-> FALSE, races |-> <<>>]

(* set_cache(data) as a whole: it ends after the rename ("ok") or at the   *)
(* statement that raised.                                                  *)
SaveOutcomes == {"ok", "open"}
set_cache(fs, data, outcome) ==
    IF outcome = "open" THEN fs
    ELSE IF outcome = "dump" THEN [fs EXCEPT ![tmp_path] = ZeroLength]
    ELSE IF outcome = "dump2" THEN [fs EXCEPT ![tmp_path] = Partial]
    ELSE IF outcome = "replace" THEN [fs EXCEPT ![tmp_path] = JsonDump(data)]
    ELSE Rename([fs EXCEPT ![tmp_path] = JsonDump(data)], tmp_path, CACHE_FILE)

(* fetch_with_cache as a whole, at time t, with r the outcome of the GET   *)
(* if one is issued and sv the outcome of the save.                        *)
fetch_with_cache(fs, key, expire_minutes, force, t, r, sv) ==
    LET c == get_cache(fs[CACHE_FILE])
        l == Lookup(c, key, t, expire_minutes, force)
    IN IF l.st = "hit" THEN [ret |-> Return(l.val), net |-> 0, files |-> fs]
       ELSE IF l.st = "raise" THEN [ret |-> Raise, net |-> 0, files |-> fs]
       ELSE IF ~RequestOK(r) \/ StoreRaises(c)
            THEN [ret |-> Raise, net |-> 1, files |-> fs]
            ELSE [ret |-> Return(r.payload), net |-> 1,
                  files |-> set_cache(fs, Store(c, key, t, r.payload), sv)]

DueAlways(race_date, day) == TRUE
DueUnlessFuture(race_date, day) == ~race_date.ok \/ race_date.d <= day
DueBeforeToday(race_date, day) == race_date.ok /\ race_date.d < day

(* `race_date and race_date <= today` (line 621)                           *)
Due(race_date, day) == race_date.ok /\ race_date.d <= day

HasResultsAnyRace(f) ==
    /\ f.ret.st = "ret"
    /\ GetRaces(f.ret.val).ok
    /\ Len(GetRaces(f.ret.val).races) > 0

(* Lines 630-632: the fetch returned, the envelope holds a race and its    *)
(* first race has a non-empty "Results".                                   *)
HasResults(f) ==
    /\ f.ret.st = "ret"
    /\ GetRaces(f.ret.val).ok
    /\ Len(GetRaces(f.ret.val).races) > 0
    /\ GetRaces(f.ret.val).races[1].hasResults
    /\ Len(GetRaces(f.ret.val).races[1].Results) > 0

(* Lines 618-647: race_copy for a due race whose fetch ended as f, and for *)
(* a race that is not due.                                                 *)
DueEvent(race, f) ==
    IF HasResults(f)
    THEN [race EXCEPT !.hasResults = TRUE,
                      !.Results = GetRaces(f.ret.val).races[1].Results,
                      !.Status = "completed"]
    ELSE [race EXCEPT !.hasResults = TRUE, !.Results = <<>>,
                      !.Status = "completed_no_results"]
ScheduledEvent(race) ==
    [race EXCEPT !.hasResults = TRUE, !.Results = <<>>, !.Status = "scheduled"]

(* The fetch_with_cache call of one loop iteration: whether it was made,   *)
(* the GETs it issued and how it ended.                                    *)
NoFetch == [called |-> FALSE, net |-> 0, ret |-> NoResult]
Fetched(f) == [called |-> TRUE, net |-> f.net, ret |-> f.ret]

NoSeason == [pc |-> "idle", force |-> FALSE, schedule |-> NoFetch,
             scheduled_races |-> <<>>, today |-> 0,
             all_races |-> <<>>, fetches |-> <<>>]

(* A process has made no load and no save.                                 *)
NoOrder == [seen |-> 0, saved |-> 0]

(* No call of get_all_races_season has ended yet.                          *)
NoHist == [prev |-> NoSeason, prev_t0 |-> 0, t0 |-> 0, before |-> Missing]

(* Panel subtitles: none yet, "Loading…", the count of loaded items, or    *)
(* f"Error: {e}".                                                          *)
NoSubtitle == [tag |-> "none", n |-> 0]
Loading == [tag |-> "loading", n |-> 0]
Total(n) == [tag |-> "total", n |-> n]
ErrorMsg == [tag |-> "error", n |-> 0]

(* Lines 166-167 and 379: the lists are empty until the first load.        *)
(* The last load_data call: its flag, its two fetches, and whether each    *)
(* standings entry point returned.                                         *)
NoLoad == [force |-> FALSE, d |-> NoFetch, c |-> NoFetch,
           d_ok |-> FALSE, c_ok |-> FALSE]
NoUi == [drivers_data |-> <<>>, constructors_data |-> <<>>, all_races |-> <<>>,
         d_sub |-> NoSubtitle, c_sub |-> NoSubtitle, r_sub |-> NoSubtitle,
         load |-> NoLoad]

(* No get_*_last_results call is running.  kind, limit and api_total are   *)
(* the entry point, its limit argument and the total the API reports.      *)
NoEp == [pc |-> "idle", kind |-> "driver", limit |-> 0, api_total |-> NoTotal,
         force |-> FALSE, accepted |-> TRUE, total |-> 0, start |-> 0,
         reqs |-> <<>>, fetches |-> <<>>, ret |-> NoResult]

(* ------------------------------- state --------------------------------- *)
VARIABLES
    files,     \* path -> file content
    clock,     \* datetime.utcnow(), in minutes
    ncalls,    \* calls started so far
    pc,        \* process -> position in fetch_with_cache / set_cache
    call,      \* process -> arguments of the running call
    now,       \* process -> local `now` (line 51)
    cache,     \* process -> local `cache` (lines 50, 65)
    resp,      \* process -> outcome of requests.get (line 62)
    ret,       \* process -> result of the call
    net,       \* process -> GETs issued by the running call
    before,    \* process -> content of CACHE_FILE when the call started
    season,    \* the running get_all_races_season call and its locals
    today,     \* date.today(), as a day number
    calendar,  \* the season's schedule as the API holds it
    order,     \* process -> saves done when it loaded, rank of its own save
    hist,      \* the previous get_all_races_season call, start of this one
    ui,        \* the data lists and panel subtitles of the screens
    ep         \* the running get_*_last_results call and its locals

vars == <<files, clock, ncalls, pc, call, now, cache, resp, ret, net, before,
          season, today, calendar, order, hist, ui, ep>>
fvars == <<pc, call, now, cache, resp, ret, net, before, order, ep>>
avars == <<hist, ui, ep>>

Procs == DOMAIN pc

NoCall == [key |-> NoKey, expire_minutes |-> 1, force |-> FALSE]
ExpireChoices == {1, 2}

(* Cache files the program can find at start-up.                           *)
InitialFiles ==
    { Missing, ZeroLength, Garbage, Unreadable,
      JsonFile(NonDict("falsy", {})),
      JsonFile(NonDict("list", {})),
      JsonFile(NonDict("list", {NoKey})),
      JsonFile(NonDict("num", {})),
      JsonFile(Dict([k \in {NoKey} |-> OtherEntry])),
      JsonFile(Dict([k \in {NoKey} |-> Entry(BadTime, NoKeysPayload)])),
      JsonFile(Dict([k \in {NoKey} |-> Entry(NoTime, NoKeysPayload)])),
      JsonFile(Dict([k \in {NoKey} |-> Entry(isoformat(0), NoKeysPayload)])) }

Init ==
    /\ \E f \in InitialFiles :
         files = [p \in Paths |-> IF p = CACHE_FILE THEN f ELSE Missing]
    /\ clock = 0
    /\ ncalls = 0
    /\ pc = [p \in {1} |-> "idle"]
    /\ call = [p \in {1} |-> NoCall]
    /\ now = [p \in {1} |-> 0]
    /\ cache = [p \in {1} |-> EmptyDict]
    /\ resp = [p \in {1} |-> NoResponse]
    /\ ret = [p \in {1} |-> NoResult]
    /\ net = [p \in {1} |-> 0]
    /\ before = [p \in {1} |-> Missing]
    /\ season = NoSeason
    /\ today = 1
    /\ calendar = <<>>
    /\ order = [p \in {1} |-> NoOrder]
    /\ hist = NoHist
    /\ ui = NoUi
    /\ ep = NoEp

(* Lines 49-51: entry into fetch_with_cache, cache = get_cache(), now.     *)
Call(p, key, expire_minutes, force) ==
    /\ pc[p] = "idle"
    /\ ncalls < MaxCalls
    /\ ncalls' = ncalls + 1
    /\ call' = [call EXCEPT ![p] = [key |-> key,
                                    expire_minutes |-> expire_minutes,
                                    force |-> force]]
    /\ cache' = [cache EXCEPT ![p] = get_cache(files[CACHE_FILE])]
    /\ now' = [now EXCEPT ![p] = clock]
    /\ before' = [before EXCEPT ![p] = files[CACHE_FILE]]
    /\ resp' = [resp EXCEPT ![p] = NoResponse]
    /\ ret' = [ret EXCEPT ![p] = NoResult]
    /\ net' = [net EXCEPT ![p] = 0]
    /\ pc' = [pc EXCEPT ![p] = "check"]
    /\ UNCHANGED <<files, clock,
                   season, today, calendar, avars>>

(* Lines 52-60.                                                            *)
Check(p) ==
    /\ pc[p] = "check"
    /\ LET r == Lookup(cache[p], call[p].key, now[p],
                       call[p].expire_minutes, call[p].force)
       IN /\ ret' = [ret EXCEPT ![p] =
                       IF r.st = "hit" THEN Return(r.val)
                       ELSE IF r.st = "raise" THEN Raise ELSE NoResult]
          /\ pc' = [pc EXCEPT ![p] = IF r.st = "miss" THEN "get" ELSE "done"]
    /\ UNCHANGED <<files, clock, ncalls, call, now, cache, resp, net, before,
                   season, today, calendar, order, avars>>

(* Lines 61-65: the GET, raise_for_status, resp.json(), cache[key] = ...   *)
Get(p) ==
    /\ pc[p] = "get"
    /\ \E r \in Responses :
         /\ resp' = [resp EXCEPT ![p] = r]
         /\ net' = [net EXCEPT ![p] = net[p] + 1]
         /\ IF RequestOK(r) /\ ~StoreRaises(cache[p])
            THEN /\ cache' = [cache EXCEPT ![p] =
                                Store(cache[p], call[p].key, now[p], r.payload)]
                 /\ pc' = [pc EXCEPT ![p] = "open"]
                 /\ ret' = ret
            ELSE /\ cache' = cache
                 /\ pc' = [pc EXCEPT ![p] = "done"]
                 /\ ret' = [ret EXCEPT ![p] = Raise]
    /\ UNCHANGED <<files, clock, ncalls, call, now, before,
                   season, today, calendar, order, avars>>

(* set_cache, line 41: open(tmp_path, "w") truncates the file, or raises.  *)
OpenTmp(p) ==
    /\ pc[p] = "open"
    /\ \E ok \in BOOLEAN :
         IF ok THEN /\ files' = [files EXCEPT ![tmp_path] = ZeroLength]
                    /\ pc' = [pc EXCEPT ![p] = "dump"]
               ELSE /\ files' = files
                    /\ pc' = [pc EXCEPT ![p] = "return"]
    /\ UNCHANGED <<clock, ncalls, call, now, cache, resp, ret, net, before,
                   season, today, calendar, order, avars>>

(* set_cache, line 42: json.dump has written part of the text, or raised.  *)
DumpPart(p) ==
    /\ pc[p] = "dump"
    /\ \E ok \in BOOLEAN :
         IF ok THEN /\ files' = [files EXCEPT ![tmp_path] = Partial]
                    /\ pc' = [pc EXCEPT ![p] = "dump2"]
               ELSE /\ files' = files
                    /\ pc' = [pc EXCEPT ![p] = "return"]
    /\ UNCHANGED <<clock, ncalls, call, now, cache, resp, ret, net, before,
                   season, today, calendar, order, avars>>

(* set_cache, line 42 and the end of the with block: the text is complete  *)
(* and the file closed, or the write raised.                               *)
DumpRest(p) ==
    /\ pc[p] = "dump2"
    /\ \E ok \in BOOLEAN :
         IF ok THEN /\ files' = [files EXCEPT ![tmp_path] = JsonDump(cache[p])]
                    /\ pc' = [pc EXCEPT ![p] = "replace"]
               ELSE /\ files' = files
                    /\ pc' = [pc EXCEPT ![p] = "return"]
    /\ UNCHANGED <<clock, ncalls, call, now, cache, resp, ret, net, before,
                   season, today, calendar, order, avars>>

(* set_cache, line 43: os.replace(tmp_path, CACHE_FILE), or it raises.     *)
Replace(p) ==
    /\ pc[p] = "replace"
    /\ \E ok \in BOOLEAN :
         files' = IF ok THEN Rename(files, tmp_path, CACHE_FILE) ELSE files
    /\ pc' = [pc EXCEPT ![p] = "return"]
    /\ UNCHANGED <<clock, ncalls, call, now, cache, resp, ret, net, before,
                   season, today, calendar, order, avars>>

(* Line 67: return data.                                                   *)
ReturnData(p) ==
    /\ pc[p] = "return"
    /\ ret' = [ret EXCEPT ![p] = Return(resp[p].payload)]
    /\ pc' = [pc EXCEPT ![p] = "done"]
    /\ UNCHANGED <<files, clock, ncalls, call, now, cache, resp, net, before,
                   season, today, calendar, order, avars>>

(* The caller takes the result; the process is ready for the next call.    *)
Finish(p) ==
    /\ pc[p] = "done"
    /\ pc' = [pc EXCEPT ![p] = "idle"]
    /\ call' = [call EXCEPT ![p] = NoCall]
    /\ now' = [now EXCEPT ![p] = 0]
    /\ cache' = [cache EXCEPT ![p] = EmptyDict]
    /\ resp' = [resp EXCEPT ![p] = NoResponse]
    /\ ret' = [ret EXCEPT ![p] = NoResult]
    /\ net' = [net EXCEPT ![p] = 0]
    /\ before' = [before EXCEPT ![p] = Missing]
    /\ UNCHANGED <<files, clock, ncalls,
                   season, today, calendar, order, avars>>

(* The process is terminated in the middle of a call.                      *)
Crash(p) ==
    /\ pc[p] \notin {"idle", "done", "crashed"}
    /\ pc' = [pc EXCEPT ![p] = "crashed"]
    /\ UNCHANGED <<files, clock, ncalls, call, now, cache, resp, ret, net, before,
                   season, today, calendar, order, avars>>

(* The program is started again; only the files survive.                   *)
Restart(p) ==
    /\ pc[p] = "crashed"
    /\ pc' = [pc EXCEPT ![p] = "idle"]
    /\ call' = [call EXCEPT ![p] = NoCall]
    /\ now' = [now EXCEPT ![p] = 0]
    /\ cache' = [cache EXCEPT ![p] = EmptyDict]
    /\ resp' = [resp EXCEPT ![p] = NoResponse]
    /\ ret' = [ret EXCEPT ![p] = NoResult]
    /\ net' = [net EXCEPT ![p] = 0]
    /\ before' = [before EXCEPT ![p] = Missing]
    /\ UNCHANGED <<files, clock, ncalls,
                   season, today, calendar, order, avars>>

(* Time passes.                                                            *)
Tick ==
    /\ clock < MaxClock
    /\ clock' = clock + 1
    /\ UNCHANGED <<files, ncalls, pc, call, now, cache, resp, ret, net, before,
                   season, today, calendar, order, avars>>

Next ==
    \/ \E p \in Procs, k \in Keys, m \in ExpireChoices, f \in BOOLEAN :
         Call(p, k, m, f) /\ UNCHANGED order
    \/ \E p \in Procs : Check(p)
    \/ \E p \in Procs : Get(p)
    \/ \E p \in Procs : OpenTmp(p)
    \/ \E p \in Procs : DumpPart(p)
    \/ \E p \in Procs : DumpRest(p)
    \/ \E p \in Procs : Replace(p)
    \/ \E p \in Procs : ReturnData(p)
    \/ \E p \in Procs : Finish(p)
    \/ \E p \in Procs : Crash(p)
    \/ \E p \in Procs : Restart(p)
    \/ Tick

Spec == Init /\ [][Next]_vars

(* --------------------- get_all_races_season: actions ------------------- *)
(* Lines 588-605: the schedule fetch, the extraction of the races and      *)
(* today's date.  An exception of either ends the call.                    *)
SeasonCall(force, r, sv) ==
    /\ season.pc = "idle"
    /\ ncalls < MaxSeasonCalls
    /\ ncalls' = ncalls + 1
    /\ LET f == fetch_with_cache(files, ScheduleKey(Season), SCHEDULE_EXPIRE,
                                 force, clock, r, sv)
           g == GetRaces(f.ret.val)
       IN /\ files' = f.files
          /\ season' = [pc |-> IF f.ret.st = "ret" /\ g.ok THEN "loop" ELSE "failed",
                        force |-> force,
                        schedule |-> Fetched(f),
                        scheduled_races |-> IF f.ret.st = "ret" /\ g.ok
                                            THEN g.races ELSE <<>>,
                        today |-> today,
                        all_races |-> <<>>,
                        fetches |-> <<>>]
    /\ UNCHANGED <<clock, today, calendar, fvars>>

(* Line 649: all_races.append(race_copy).  The alternative puts the newest *)
(* event first.                                                            *)
PrependEvent(all_races, e) == <<e>> \o all_races
AppendEvent(all_races, e) == Append(all_races, e)

(* Lines 606-649: one iteration of the loop.                               *)
SeasonIter(r, sv) ==
    /\ season.pc = "loop"
    /\ Len(season.all_races) < Len(season.scheduled_races)
    /\ r \in ResultsResponses(season.scheduled_races[Len(season.all_races) + 1])
    /\ LET race == season.scheduled_races[Len(season.all_races) + 1]
           round_num == race.round
           race_date == ParseDate(race.date)
           f == fetch_with_cache(files, ResultsKey(Season, round_num),
                                 RESULTS_EXPIRE, season.force, clock, r, sv)
       IN IF Due(race_date, season.today)
          THEN /\ files' = f.files
               /\ season' = [season EXCEPT
                     !.all_races = AppendEvent(@, DueEvent(race, f)),
                     !.fetches = Append(@, Fetched(f))]
          ELSE /\ files' = files
               /\ season' = [season EXCEPT
                     !.all_races = AppendEvent(@, ScheduledEvent(race)),
                     !.fetches = Append(@, NoFetch)]
    /\ UNCHANGED <<clock, ncalls, today, calendar, fvars, hist, ui>>

(* Line 651: return all_races.                                             *)
SeasonReturn ==
    /\ season.pc = "loop"
    /\ Len(season.all_races) = Len(season.scheduled_races)
    /\ season' = [season EXCEPT !.pc = "returned"]
    /\ UNCHANGED <<files, clock, ncalls, today, calendar, fvars, hist, ui>>

(* The caller has the list or the exception; the next call can start.      *)
SeasonFinish ==
    /\ season.pc \in {"returned", "failed"}
    /\ season' = NoSeason
    /\ UNCHANGED <<files, clock, ncalls, today, calendar, fvars>>

(* Time passes.                                                            *)
SeasonTick ==
    /\ clock + TickMinutes <= MaxSeasonClock
    /\ clock' = clock + TickMinutes
    /\ UNCHANGED <<files, ncalls, today, calendar, fvars, season, hist, ui>>

(* A cache file left by an earlier run at time 0: the schedule and the     *)
(* results of round 1.                                                     *)
WarmCache(sc) ==
    JsonFile(Dict([k \in {ScheduleKey(Season), ResultsKey(Season, 1)} |->
        IF k = ScheduleKey(Season)
        THEN Entry(isoformat(0), Envelope(sc))
        ELSE Entry(isoformat(0),
                   Envelope(<<Race(1, Ymd(0), TRUE, <<"P1 VER", "P2 NOR">>)>>))]))

InitSeason ==
    /\ calendar \in Schedules
    /\ \E f \in {Missing, JsonFile(NonDict("list", {})), WarmCache(calendar)} :
         files = [p \in Paths |-> IF p = CACHE_FILE THEN f ELSE Missing]
    /\ clock = 0
    /\ ncalls = 0
    /\ pc = [p \in {1} |-> "idle"]
    /\ call = [p \in {1} |-> NoCall]
    /\ now = [p \in {1} |-> 0]
    /\ cache = [p \in {1} |-> EmptyDict]
    /\ resp = [p \in {1} |-> NoResponse]
    /\ ret = [p \in {1} |-> NoResult]
    /\ net = [p \in {1} |-> 0]
    /\ before = [p \in {1} |-> Missing]
    /\ season = NoSeason
    /\ today = 1
    /\ order = [p \in {1} |-> NoOrder]
    /\ hist = NoHist
    /\ ui = NoUi
    /\ ep = NoEp

NextSeason ==
    \/ \E force \in BOOLEAN, sv \in SaveOutcomes :
         \E r \in ScheduleResponses(calendar) :
            SeasonCall(force, r, sv) /\ UNCHANGED <<hist, ui>>
    \/ \E sv \in SaveOutcomes :
         \E r \in UNION { ResultsResponses(e) :
                             e \in {calendar[i] : i \in 1..Len(calendar)} } :
            SeasonIter(r, sv)
    \/ SeasonReturn
    \/ SeasonFinish /\ UNCHANGED <<hist, ui>>
    \/ SeasonTick

SpecSeason == InitSeason /\ [][NextSeason]_vars

(* --------------------- the screens' load handlers ---------------------- *)
MaxAppCalls == 2
DEFAULT_EXPIRE == 1440

(* Responses to a standings request: the list of the envelope is the       *)
(* DriverStandings / ConstructorStandings list of its first standings      *)
(* list.                                                                   *)
StandingsLists == { <<"VER">>, <<"NOR", "VER">> }
StandingsResponses ==
    { Timeout, Http("2xx", TRUE, BadPayload), Http("2xx", TRUE, NoKeysPayload) }
    \cup { Http("2xx", TRUE, Envelope(l)) : l \in StandingsLists }

(* Lines 77-80 and 86-89: the standings list, [] when a key is missing or  *)
(* there is no standings list, or an exception.                            *)
GetStandings(payload) ==
    IF payload.shape = "ok" THEN [ok |-> TRUE, list |-> payload.races]
    ELSE IF payload.shape = "nokeys" THEN [ok |-> TRUE, list |-> <<>>]
    ELSE [ok |-> FALSE, list |-> <<>>]

(* The standings entry point for `key` as a whole: its fetch, the files it *)
(* leaves, and the list it returns unless it raises.                       *)
Standings(fs, key, force, t, r, sv) ==
    LET f == fetch_with_cache(fs, key, DEFAULT_EXPIRE, force, t, r, sv)
    IN [fetch |-> Fetched(f), files |-> f.files,
        ret |-> IF f.ret.st = "ret" THEN GetStandings(f.ret.val)
                ELSE [ok |-> FALSE, list |-> <<>>]]
get_driver_standings(fs, force, t, r, sv) ==
    Standings(fs, <<"drivers", Season>>, force, t, r, sv)
get_constructor_standings(fs, force, t, r, sv) ==
    Standings(fs, <<"constructors", Season>>, force, t, r, sv)

OnLoadErrorClear(u) ==
    [u EXCEPT !.drivers_data = <<>>, !.constructors_data = <<>>,
              !.d_sub = ErrorMsg, !.c_sub = ErrorMsg]

(* Lines 288-291 and 446-447: the except blocks set the subtitles.         *)
OnLoadError(u) == [u EXCEPT !.d_sub = ErrorMsg, !.c_sub = ErrorMsg]
OnRaceError(u) == [u EXCEPT !.r_sub = ErrorMsg]

(* F1DashboardApp.load_data (lines 276-295) as a whole.                    *)
LoadData(force, r1, sv1, r2, sv2) ==
    /\ season.pc = "idle"
    /\ ep.pc = "idle"
    /\ ncalls < MaxAppCalls
    /\ ncalls' = ncalls + 1
    /\ LET d == get_driver_standings(files, force, clock, r1, sv1)
           c == get_constructor_standings(d.files, force, clock, r2, sv2)
       IN IF ~d.ret.ok
          THEN /\ files' = d.files
               /\ ui' = OnLoadError([ui EXCEPT
                            !.load = [force |-> force, d |-> d.fetch, c |-> NoFetch,
                                      d_ok |-> FALSE, c_ok |-> FALSE]])
          ELSE IF ~c.ret.ok
          THEN /\ files' = c.files
               /\ ui' = OnLoadError([ui EXCEPT
                            !.drivers_data = d.ret.list,
                            !.load = [force |-> force, d |-> d.fetch, c |-> c.fetch,
                                      d_ok |-> TRUE, c_ok |-> FALSE]])
          ELSE /\ files' = c.files
               /\ ui' = [ui EXCEPT !.drivers_data = d.ret.list,
                            !.constructors_data = c.ret.list,
                            !.d_sub = Total(Len(d.ret.list)),
                            !.c_sub = Total(Len(c.ret.list)),
                            !.load = [force |-> force, d |-> d.fetch, c |-> c.fetch,
                                      d_ok |-> TRUE, c_ok |-> TRUE]]
    /\ UNCHANGED <<clock, season, today, calendar, hist, fvars>>

(* RaceScreen.load_race_data, lines 438-444: up to the end of the schedule *)
(* fetch of get_all_races_season.                                          *)
LoadRaceDataStart(force, r, sv) ==
    /\ ep.pc = "idle"
    /\ SeasonCall(force, r, sv)
    /\ ui' = [ui EXCEPT !.r_sub = Loading]
    /\ UNCHANGED hist

(* RaceScreen.load_race_data, lines 444-450: the list is assigned and      *)
(* counted, or the exception is shown.                                     *)
LoadRaceDataEnd ==
    /\ SeasonFinish
    /\ ui' = IF season.pc = "returned"
             THEN [ui EXCEPT !.all_races = season.all_races,
                             !.r_sub = Total(Len(season.all_races))]
             ELSE OnRaceError(ui)
    /\ UNCHANGED hist

InitUI ==
    /\ calendar = Calendar(MaxRaces, 2)
    /\ \E f \in {Missing, JsonFile(NonDict("list", {}))} :
         files = [p \in Paths |-> IF p = CACHE_FILE THEN f ELSE Missing]
    /\ clock = 0
    /\ ncalls = 0
    /\ pc = [p \in {1} |-> "idle"]
    /\ call = [p \in {1} |-> NoCall]
    /\ now = [p \in {1} |-> 0]
    /\ cache = [p \in {1} |-> EmptyDict]
    /\ resp = [p \in {1} |-> NoResponse]
    /\ ret = [p \in {1} |-> NoResult]
    /\ net = [p \in {1} |-> 0]
    /\ before = [p \in {1} |-> Missing]
    /\ season = NoSeason
    /\ today = 1
    /\ order = [p \in {1} |-> NoOrder]
    /\ hist = NoHist
    /\ ui = NoUi
    /\ ep = NoEp

NextUI ==
    \/ \E force \in BOOLEAN, sv1, sv2 \in SaveOutcomes :
         \E r1, r2 \in StandingsResponses : LoadData(force, r1, sv1, r2, sv2)
    \/ \E force \in BOOLEAN, sv \in SaveOutcomes :
         \E r \in ScheduleResponses(calendar) : LoadRaceDataStart(force, r, sv)
    \/ \E sv \in SaveOutcomes :
         \E r \in UNION { ResultsResponses(e) :
                             e \in {calendar[i] : i \in 1..Len(calendar)} } :
            SeasonIter(r, sv)
    \/ SeasonReturn
    \/ LoadRaceDataEnd

SpecUI == InitUI /\ [][NextUI]_vars

(* ------------ get_driver_last_results and its constructor twin -------- *)
MaxTotal == 12
DEFAULT_LIMIT == 10
LAST_EXPIRE == 1440

Kinds == {"driver", "constructor"}
Limits == {1, 2, DEFAULT_LIMIT}
Id(kind) == IF kind = "driver" THEN "max_verstappen" ELSE "red_bull"
TotalTexts ==
    { TotalText(n) : n \in {-1, 0, 1, 2, 3, MaxTotal - 1, MaxTotal} }
    \cup {BadTotal, NoTotal}

(* str(n) inside an f-string, one character per element.                   *)
Digit(d) == <<"0", "1", "2", "3", "4", "5", "6", "7", "8", "9">>[d + 1]
RECURSIVE Digits(_)
Digits(n) ==
    IF n < 0 THEN <<"-">> \o Digits(-n)
    ELSE IF n < 10 THEN <<Digit(n)>>
    ELSE Digits(n \div 10) \o <<Digit(n % 10)>>

(* f"driver_last_meta_{driver_id}" (lines 554, 574) and                    *)
(* f"driver_last_{driver_id}_{limit}_{start}" (lines 564, 582).            *)
MetaKey(kind, id) == <<"last_meta", kind, id>>
WindowKey(kind, id, limit, start) ==
    <<"last", kind, id, "_">> \o Digits(limit) \o <<"_">> \o Digits(start)

(* The query of a request: ?limit=1, ?limit={limit}&offset={start}.        *)
NoOffset == [has |-> FALSE, n |-> 0]
Offset(n) == [has |-> TRUE, n |-> n]
Request(key, limit, offset) == [key |-> key, limit |-> limit, offset |-> offset]

(* Lines 556-560: total_str defaults to "0", int() of anything but an      *)
(* integer text raises and gives 0; .get on a non-object raises.           *)
ToInt(txt) == IF txt.tag = "int" THEN txt.n ELSE 0
ReadTotal(payload) ==
    IF payload.shape = "bad" THEN [ok |-> FALSE, total |-> 0]
    ELSE IF payload.shape = "nokeys" THEN [ok |-> TRUE, total |-> 0]
    ELSE [ok |-> TRUE, total |-> ToInt(payload.total)]

StartUnclamped(total, limit) == total - limit

(* start = max(0, total - limit)  (lines 561, 579)                         *)
WindowStart(total, limit) == IF total - limit > 0 THEN total - limit ELSE 0

MetaResponses(t) ==
    { Timeout, Http("2xx", TRUE, BadPayload), Http("2xx", TRUE, Meta(t)) }
WindowResponses ==
    { Timeout, Http("2xx", TRUE, BadPayload), Http("2xx", TRUE, Envelope(<<>>)) }

(* Lines 550 and 570: the call.  The functions have the parameters         *)
(* (driver_id, limit) only, so a call that passes force raises TypeError   *)
(* before the body runs.                                                   *)
LastCall(force) ==
    /\ ep.pc = "idle"
    /\ season.pc = "idle"
    /\ ncalls < MaxAppCalls
    /\ ncalls' = ncalls + 1
    /\ ep' = [ep EXCEPT !.pc = IF force THEN "done" ELSE "meta",
                        !.force = force,
                        !.accepted = ~force,
                        !.ret = IF force THEN Raise ELSE NoResult]
    /\ UNCHANGED <<files, clock, season, today, calendar, hist, ui, order,
                   pc, call, now, cache, resp, ret, net, before>>

(* Lines 552-561: the one-item page, total and start.                      *)
LastMeta(r, sv) ==
    /\ ep.pc = "meta"
    /\ r \in MetaResponses(ep.api_total)
    /\ LET key == MetaKey(ep.kind, Id(ep.kind))
           f == fetch_with_cache(files, key, LAST_EXPIRE, FALSE, clock, r, sv)
           tot == ReadTotal(f.ret.val)
       IN /\ files' = f.files
          /\ ep' = IF f.ret.st = "ret" /\ tot.ok
                   THEN [ep EXCEPT !.pc = "window",
                                   !.total = tot.total,
                                   !.start = WindowStart(tot.total, ep.limit),
                                   !.reqs = Append(@, Request(key, 1, NoOffset)),
                                   !.fetches = Append(@, Fetched(f))]
                   ELSE [ep EXCEPT !.pc = "done",
                                   !.ret = Raise,
                                   !.reqs = Append(@, Request(key, 1, NoOffset)),
                                   !.fetches = Append(@, Fetched(f))]
    /\ UNCHANGED <<clock, ncalls, season, today, calendar, hist, ui, order,
                   pc, call, now, cache, resp, ret, net, before>>

(* Lines 562-567: the window request and the races it returns.             *)
LastWindow(r, sv) ==
    /\ ep.pc = "window"
    /\ LET key == WindowKey(ep.kind, Id(ep.kind), ep.limit, ep.start)
           f == fetch_with_cache(files, key, LAST_EXPIRE, FALSE, clock, r, sv)
       IN /\ files' = f.files
          /\ ep' = [ep EXCEPT !.pc = "done",
                              !.ret = IF f.ret.st = "ret" /\ GetRaces(f.ret.val).ok
                                      THEN f.ret ELSE Raise,
                              !.reqs = Append(@, Request(key, ep.limit,
                                                         Offset(ep.start))),
                              !.fetches = Append(@, Fetched(f))]
    /\ UNCHANGED <<clock, ncalls, season, today, calendar, hist, ui, order,
                   pc, call, now, cache, resp, ret, net, before>>

(* The caller has the races or the exception.                              *)
LastFinish ==
    /\ ep.pc = "done"
    /\ ep' = [NoEp EXCEPT !.kind = ep.kind, !.limit = ep.limit,
                          !.api_total = ep.api_total]
    /\ UNCHANGED <<files, clock, ncalls, season, today, calendar, hist, ui, order,
                   pc, call, now, cache, resp, ret, net, before>>

(* The entry point, its limit and the API's total are drawn at the start.  *)
InitLastN ==
    /\ \E k \in Kinds, l \in Limits, t \in TotalTexts :
         ep = [NoEp EXCEPT !.kind = k, !.limit = l, !.api_total = t]
    /\ \E f \in {Missing, JsonFile(NonDict("list", {}))} :
         files = [p \in Paths |-> IF p = CACHE_FILE THEN f ELSE Missing]
    /\ calendar = <<>>
    /\ clock = 0
    /\ ncalls = 0
    /\ pc = [p \in {1} |-> "idle"]
    /\ call = [p \in {1} |-> NoCall]
    /\ now = [p \in {1} |-> 0]
    /\ cache = [p \in {1} |-> EmptyDict]
    /\ resp = [p \in {1} |-> NoResponse]
    /\ ret = [p \in {1} |-> NoResult]
    /\ net = [p \in {1} |-> 0]
    /\ before = [p \in {1} |-> Missing]
    /\ season = NoSeason
    /\ today = 1
    /\ order = [p \in {1} |-> NoOrder]
    /\ hist = NoHist
    /\ ui = NoUi

NextLastN ==
    \/ \E force \in BOOLEAN : LastCall(force)
    \/ \E sv \in SaveOutcomes :
         \E r \in UNION { MetaResponses(t) : t \in TotalTexts } : LastMeta(r, sv)
    \/ \E sv \in SaveOutcomes : \E r \in WindowResponses : LastWindow(r, sv)
    \/ LastFinish

SpecLastN == InitLastN /\ [][NextLastN]_vars

(* ---------- the four entry points behind the screens, together -------- *)
(* The main screen loads the standings, the race screen the season, and a  *)
(* detail screen the last DEFAULT_LIMIT results (lines 783, 864); one call *)
(* runs at a time.                                                         *)
InitApp ==
    /\ \E k \in Kinds :
         ep = [NoEp EXCEPT !.kind = k, !.limit = DEFAULT_LIMIT,
                           !.api_total = TotalText(MaxTotal)]
    /\ calendar = Calendar(MaxRaces, 2)
    /\ files = [p \in Paths |-> Missing]
    /\ clock = 0
    /\ ncalls = 0
    /\ pc = [p \in {1} |-> "idle"]
    /\ call = [p \in {1} |-> NoCall]
    /\ now = [p \in {1} |-> 0]
    /\ cache = [p \in {1} |-> EmptyDict]
    /\ resp = [p \in {1} |-> NoResponse]
    /\ ret = [p \in {1} |-> NoResult]
    /\ net = [p \in {1} |-> 0]
    /\ before = [p \in {1} |-> Missing]
    /\ season = NoSeason
    /\ today = 1
    /\ order = [p \in {1} |-> NoOrder]
    /\ hist = NoHist
    /\ ui = NoUi

NextApp ==
    \/ \E force \in BOOLEAN, sv1, sv2 \in SaveOutcomes :
         \E r1, r2 \in StandingsResponses : LoadData(force, r1, sv1, r2, sv2)
    \/ \E force \in BOOLEAN, sv \in SaveOutcomes :
         \E r \in ScheduleResponses(calendar) : LoadRaceDataStart(force, r, sv)
    \/ \E sv \in SaveOutcomes :
         \E r \in UNION { ResultsResponses(e) :
                             e \in {calendar[i] : i \in 1..Len(calendar)} } :
            SeasonIter(r, sv)
    \/ SeasonReturn
    \/ LoadRaceDataEnd
    \/ \E force \in BOOLEAN : LastCall(force)
    \/ \E sv \in SaveOutcomes :
         \E r \in MetaResponses(TotalText(MaxTotal)) : LastMeta(r, sv)
    \/ \E sv \in SaveOutcomes : \E r \in WindowResponses : LastWindow(r, sv)
    \/ LastFinish

SpecApp == InitApp /\ [][NextApp]_vars

(* --------------- get_all_races_season called repeatedly ---------------- *)
(* The calls of SpecSeason, with the call that ended last, the time the    *)
(* running call started and the cache file it found kept in hist.          *)
TwiceCall(force, r, sv) ==
    /\ SeasonCall(force, r, sv)
    /\ hist' = [hist EXCEPT !.t0 = clock, !.before = files[CACHE_FILE]]
    /\ UNCHANGED ui

TwiceFinish ==
    /\ SeasonFinish
    /\ hist' = [hist EXCEPT !.prev = season, !.prev_t0 = hist.t0]
    /\ UNCHANGED ui

(* Time passes between two calls; a call is over within seconds.           *)
TwiceTick ==
    /\ season.pc = "idle"
    /\ SeasonTick

NextTwice ==
    \/ \E force \in BOOLEAN, sv \in SaveOutcomes :
         \E r \in ScheduleResponses(calendar) : TwiceCall(force, r, sv)
    \/ \E sv \in SaveOutcomes :
         \E r \in UNION { ResultsResponses(e) :
                             e \in {calendar[i] : i \in 1..Len(calendar)} } :
            SeasonIter(r, sv)
    \/ SeasonReturn
    \/ TwiceFinish
    \/ TwiceTick

(* A full calendar whose first race is run today and whose other races are *)
(* to come, and no cache file or the one an earlier run left.              *)
InitTwice ==
    /\ calendar = Calendar(MaxRaces, 2)
    /\ \E f \in {Missing, WarmCache(calendar)} :
         files = [p \in Paths |-> IF p = CACHE_FILE THEN f ELSE Missing]
    /\ clock = 0
    /\ ncalls = 0
    /\ pc = [p \in {1} |-> "idle"]
    /\ call = [p \in {1} |-> NoCall]
    /\ now = [p \in {1} |-> 0]
    /\ cache = [p \in {1} |-> EmptyDict]
    /\ resp = [p \in {1} |-> NoResponse]
    /\ ret = [p \in {1} |-> NoResult]
    /\ net = [p \in {1} |-> 0]
    /\ before = [p \in {1} |-> Missing]
    /\ season = NoSeason
    /\ today = 1
    /\ order = [p \in {1} |-> NoOrder]
    /\ hist = NoHist
    /\ ui = NoUi
    /\ ep = NoEp

SpecTwice == InitTwice /\ [][NextTwice]_vars

(* ------------- two fetch_with_cache calls running at once -------------- *)
(* Two processes share the cache file, each makes one call; the steps of   *)
(* a call are its load (lines 50-51), its lookup, its GET and its save,    *)
(* set_cache taken as a whole.                                             *)
SavesDone == Cardinality({q \in Procs : order[q].saved > 0})

Load(p, key, expire_minutes, force) ==
    /\ Call(p, key, expire_minutes, force)
    /\ order' = [order EXCEPT ![p].seen = SavesDone]

(* Line 66: set_cache(cache), which ends after the rename or at the        *)
(* statement that raised.                                                  *)
Save(p, sv) ==
    /\ pc[p] = "open"
    /\ files' = set_cache(files, cache[p], sv)
    /\ order' = [order EXCEPT ![p].saved = IF sv = "ok" THEN SavesDone + 1 ELSE 0]
    /\ pc' = [pc EXCEPT ![p] = "return"]
    /\ UNCHANGED <<clock, ncalls, call, now, cache, resp, ret, net, before,
                   season, today, calendar, avars>>

ConcFiles ==
    { Missing,
      JsonFile(Dict([k \in {NoKey} |-> Entry(isoformat(0), NoKeysPayload)])) }

InitConc ==
    /\ \E f \in ConcFiles :
         files = [p \in Paths |-> IF p = CACHE_FILE THEN f ELSE Missing]
    /\ clock = 0
    /\ ncalls = 0
    /\ pc = [p \in {1, 2} |-> "idle"]
    /\ call = [p \in {1, 2} |-> NoCall]
    /\ now = [p \in {1, 2} |-> 0]
    /\ cache = [p \in {1, 2} |-> EmptyDict]
    /\ resp = [p \in {1, 2} |-> NoResponse]
    /\ ret = [p \in {1, 2} |-> NoResult]
    /\ net = [p \in {1, 2} |-> 0]
    /\ before = [p \in {1, 2} |-> Missing]
    /\ season = NoSeason
    /\ today = 1
    /\ calendar = <<>>
    /\ order = [p \in {1, 2} |-> NoOrder]
    /\ hist = NoHist
    /\ ui = NoUi
    /\ ep = NoEp

NextConc ==
    \/ \E p \in Procs, k \in Keys, m \in ExpireChoices, f \in BOOLEAN :
         Load(p, k, m, f)
    \/ \E p \in Procs : Check(p)
    \/ \E p \in Procs : Get(p)
    \/ \E p \in Procs, sv \in SaveOutcomes : Save(p, sv)
    \/ \E p \in Procs : ReturnData(p)

SpecConc == InitConc /\ [][NextConc]_vars

(* ==================== properties of fetch_with_cache =================== *)
(* The entry of the call's key as the call found it in the cache file, for *)
(* a file that holds a mapping with a well-formed entry under the key.     *)
HasWrittenEntry(p) ==
    /\ before[p].kind = "json"
    /\ before[p].val.shape = "dict"
    /\ call[p].key \in DOMAIN before[p].val.map
    /\ before[p].val.map[call[p].key].form = "dict"
    /\ before[p].val.map[call[p].key].time.tag = "iso"
FoundEntry(p) == before[p].val.map[call[p].key]
Age(p) == now[p] - FoundEntry(p).time.t

(* C1: a non-forced call made less than expire_minutes after the time T    *)
(* recorded in the key's entry returns the entry's payload and issues no   *)
(* GET; a non-forced call made more than expire_minutes after T issues a   *)
(* GET.                                                                    *)
C1_CacheFreshness ==
    \A p \in Procs :
        (pc[p] = "done" /\ ~call[p].force /\ HasWrittenEntry(p)) =>
            /\ (0 <= Age(p) /\ Age(p) < call[p].expire_minutes) =>
                  (ret[p] = Return(FoundEntry(p).data) /\ net[p] = 0)
            /\ (Age(p) > call[p].expire_minutes) => net[p] = 1

C1_Witness ==
    \E p \in Procs :
        /\ pc[p] = "done" /\ ~call[p].force /\ HasWrittenEntry(p)
        /\ FoundEntry(p).time.t >= 1
        /\ Age(p) >= 1 /\ Age(p) < call[p].expire_minutes
        /\ ret[p] = Return(FoundEntry(p).data) /\ net[p] = 0

(* C2: a forced call that runs to its end has issued exactly one GET,      *)
(* whatever the cache held, and what it returns is the payload of that     *)
(* GET's response.                                                         *)
C2_ForcedFetch ==
    \A p \in Procs :
        (pc[p] = "done" /\ call[p].force) =>
            /\ net[p] = 1
            /\ ret[p].st = "ret" => ret[p].val = resp[p].payload

C2_Witness ==
    \E p \in Procs :
        /\ pc[p] = "done" /\ call[p].force /\ HasWrittenEntry(p)
        /\ Age(p) < call[p].expire_minutes
        /\ FoundEntry(p).data # resp[p].payload
        /\ net[p] = 1
        /\ ret[p] = Return(resp[p].payload)

(* The GET of the call failed: no connection, a timeout or a status other  *)
(* than 2xx.                                                               *)
RequestFailed(r) == r.kind \in {"timeout", "connerr"} \/ r.status # "2xx"

(* C3: when the GET of a call times out, fails to connect or returns a     *)
(* non-2xx status, the call raises and the cache file is what it was       *)
(* before the call.                                                        *)
C3_FailedRequestNotCached ==
    \A p \in Procs :
        (pc[p] = "done" /\ net[p] = 1 /\ RequestFailed(resp[p])) =>
            /\ ret[p] = Raise
            /\ files[CACHE_FILE] = before[p]

(* C4: get_cache returns an empty mapping for every cache file that does   *)
(* not hold a mapping (missing, zero-length, unreadable, other content).   *)
C4_LoadRecoversFromCorruption ==
    \A p \in Procs :
        (pc[p] = "check"
           /\ ~(before[p].kind = "json" /\ before[p].val.shape = "dict")) =>
            cache[p] = EmptyDict

(* C5: the content of CACHE_FILE changes only in the os.replace step of    *)
(* set_cache, to the complete text of the mapping being saved; no step     *)
(* before it and no termination of the process changes it, and it never    *)
(* holds a partially written text.                                         *)
C5_AtomicPersistence ==
    /\ [][files'[CACHE_FILE] # files[CACHE_FILE] =>
            \E p \in Procs : /\ pc[p] = "replace"
                             /\ pc'[p] = "return"
                             /\ files'[CACHE_FILE] = JsonDump(cache[p])]_vars
    /\ [](files[CACHE_FILE].kind # "partial")

C5_Witness ==
    \E p \in Procs :
        /\ pc[p] = "crashed"
        /\ files[tmp_path].kind = "json"
        /\ files[tmp_path] # files[CACHE_FILE]
        /\ files[CACHE_FILE] = before[p]

(* C6: a call raises only when its GET failed, and a call whose GET        *)
(* succeeded returns the response payload, whatever the cache file holds   *)
(* and whether or not the save succeeds.                                   *)
C6_CacheErrorsNeverSurfaced ==
    \A p \in Procs :
        pc[p] = "done" =>
            /\ ret[p] = Raise => (net[p] = 1 /\ ~RequestOK(resp[p]))
            /\ (net[p] = 1 /\ RequestOK(resp[p])) =>
                  ret[p] = Return(resp[p].payload)

(* ================== properties of get_all_races_season ================= *)
Statuses == {"scheduled", "completed", "completed_no_results"}

(* C7: every event built by get_all_races_season has one of the three      *)
(* statuses, carries a Results list, and the list is non-empty exactly     *)
(* when the status is completed.                                           *)
C7_StatusExclusivity ==
    \A i \in 1..Len(season.all_races) :
        LET e == season.all_races[i]
        IN /\ e.Status \in Statuses
           /\ e.hasResults
           /\ (Len(e.Results) > 0) <=> (e.Status = "completed")

C7_Witness ==
    /\ season.pc = "returned"
    /\ \E i \in 1..Len(season.all_races) :
         /\ season.all_races[i].Status = "completed"
         /\ Len(season.all_races[i].Results) = 2
    /\ \E i \in 1..Len(season.all_races) :
         /\ season.all_races[i].Status = "completed_no_results"
         /\ season.fetches[i].ret.st = "ret"

(* The schedule entry i is dated after / not after the day of the call.    *)
FutureRace(i) ==
    /\ season.scheduled_races[i].date.tag = "ymd"
    /\ season.scheduled_races[i].date.d > season.today
DueRace(i) ==
    /\ season.scheduled_races[i].date.tag = "ymd"
    /\ season.scheduled_races[i].date.d <= season.today

(* C8: a race dated after today is scheduled with empty Results, and no    *)
(* fetch_with_cache call (no cache lookup, no GET) is made for it, forced  *)
(* or not.                                                                 *)
C8_FutureRacesNoFetch ==
    \A i \in 1..Len(season.all_races) :
        FutureRace(i) =>
            /\ season.all_races[i].Status = "scheduled"
            /\ season.all_races[i].Results = <<>>
            /\ ~season.fetches[i].called
            /\ season.fetches[i].net = 0

C8_Witness ==
    /\ season.pc = "returned"
    /\ season.force
    /\ \E i \in 1..Len(season.all_races) :
         /\ FutureRace(i)
         /\ season.all_races[i].Status = "scheduled"
         /\ ~season.fetches[i].called
    /\ \E i \in 1..Len(season.all_races) : season.fetches[i].net = 1

(* The results fetch f returned an envelope whose first race has a         *)
(* non-empty results list.                                                 *)
YieldsResults(f) ==
    /\ f.ret.st = "ret"
    /\ f.ret.val.shape = "ok"
    /\ Len(f.ret.val.races) > 0
    /\ f.ret.val.races[1].hasResults
    /\ f.ret.val.races[1].Results # <<>>

(* C9: for a race dated today or earlier the results fetch is made; the    *)
(* event is completed with exactly the fetched results when there are      *)
(* some, and completed_no_results with empty Results when the fetch failed *)
(* or carried none.                                                        *)
C9_DueClassification ==
    \A i \in 1..Len(season.all_races) :
        DueRace(i) =>
            /\ season.fetches[i].called
            /\ YieldsResults(season.fetches[i]) =>
                  /\ season.all_races[i].Status = "completed"
                  /\ season.all_races[i].Results =
                        season.fetches[i].ret.val.races[1].Results
            /\ ~YieldsResults(season.fetches[i]) =>
                  /\ season.all_races[i].Status = "completed_no_results"
                  /\ season.all_races[i].Results = <<>>

C9_Witness ==
    /\ season.pc = "returned"
    /\ \E i, j \in 1..Len(season.all_races) :
         /\ DueRace(i) /\ season.scheduled_races[i].date.d = season.today
         /\ YieldsResults(season.fetches[i])
         /\ season.all_races[i].Status = "completed"
         /\ DueRace(j)
         /\ season.fetches[j].ret = Raise
         /\ season.all_races[j].Status = "completed_no_results"

(* C10: a failed results fetch leaves the call running and only makes its  *)
(* own race completed_no_results, every race of the schedule is processed  *)
(* before the call returns, and the call fails exactly when the schedule   *)
(* fetch failed.                                                           *)
C10_FailureIsolation ==
    season.pc # "idle" =>
        /\ (season.pc = "failed") <=> (season.schedule.ret = Raise)
        /\ \A i \in 1..Len(season.all_races) :
              season.fetches[i].ret = Raise =>
                  season.all_races[i].Status = "completed_no_results"
        /\ season.pc = "returned" =>
              Len(season.all_races) = Len(season.scheduled_races)

(* C11: the returned list has one event per race of the fetched schedule,  *)
(* in the schedule's order, and the event at each position carries the     *)
(* round and the date of the schedule entry at that position, whatever the *)
(* per-race fetches did; while the loop runs the list is the prefix built  *)
(* so far.                                                                 *)
C11_OrderPreservation ==
    /\ season.pc \in {"loop", "returned"} =>
          /\ Len(season.all_races) <= Len(season.scheduled_races)
          /\ \A i \in 1..Len(season.all_races) :
                /\ season.all_races[i].round = season.scheduled_races[i].round
                /\ season.all_races[i].date = season.scheduled_races[i].date
    /\ season.pc = "returned" =>
          /\ Len(season.all_races) = Len(season.scheduled_races)
          /\ season.schedule.ret.st = "ret"
          /\ season.scheduled_races = GetRaces(season.schedule.ret.val).races

C11_Witness ==
    /\ season.pc = "returned"
    /\ Len(season.all_races) = MaxRaces
    /\ \E i, j \in 1..Len(season.all_races) :
          /\ i < j
          /\ season.all_races[i].round # season.all_races[j].round
          /\ season.fetches[i].ret = Raise
          /\ season.all_races[j].Status = "completed"

(* The schedule entry at position i has no usable date: the "date" key is  *)
(* missing, its text is empty, or strptime rejects it.                     *)
Undated(i) == ~ParseDate(season.scheduled_races[i].date).ok

(* C18: a race whose schedule entry has a missing, an empty or an          *)
(* unparseable date is classified scheduled with empty Results and no      *)
(* per-race fetch is made for it, in forced and in non-forced calls.       *)
C18_UndatedRaceScheduled ==
    \A i \in 1..Len(season.all_races) :
        Undated(i) =>
            /\ season.all_races[i].Status = "scheduled"
            /\ season.all_races[i].Results = <<>>
            /\ ~season.fetches[i].called
            /\ season.fetches[i].net = 0

C18_Witness ==
    /\ season.pc = "returned"
    /\ season.force
    /\ \E i, j \in 1..Len(season.all_races) :
          /\ season.scheduled_races[i].date = BadDate
          /\ season.scheduled_races[j].date = NoDate
          /\ season.all_races[i].Status = "scheduled"
          /\ season.all_races[j].Status = "scheduled"
          /\ ~season.fetches[j].called

(* ================ more properties of fetch_with_cache ================== *)
(* The call found, under its key, an object whose "time" is missing or is  *)
(* not an ISO text.                                                        *)
HasUntimedEntry(p) ==
    /\ before[p].kind = "json"
    /\ before[p].val.shape = "dict"
    /\ call[p].key \in DOMAIN before[p].val.map
    /\ before[p].val.map[call[p].key].form = "dict"
    /\ before[p].val.map[call[p].key].time.tag \in {"bad", "absent"}

(* C15: a non-forced call that finds an entry whose timestamp is malformed *)
(* or missing treats the entry as expired: the lookup does not raise, the  *)
(* cached payload is not what the call returns, and a GET is issued.       *)
C15_LenientStaleness ==
    \A p \in Procs :
        (pc[p] = "done" /\ ~call[p].force /\ HasUntimedEntry(p)) =>
            /\ net[p] = 1
            /\ ret[p].st = "ret" => ret[p].val = resp[p].payload

(* The cache file holds a JSON object.                                     *)
IsStore(f) == f.kind = "json" /\ f.val.shape = "dict"
StoreKeys(f) == DOMAIN f.val.map

(* C17: a step that changes a cache file holding a JSON object leaves a    *)
(* JSON object that has every key it had, with the entry of every key but  *)
(* the call's unchanged, and under the call's key the timestamp of the     *)
(* call and the payload of its response; so the key set never shrinks.     *)
C17_EntriesNeverDeleted ==
    [][(IsStore(files[CACHE_FILE]) /\ files'[CACHE_FILE] # files[CACHE_FILE]) =>
         /\ IsStore(files'[CACHE_FILE])
         /\ StoreKeys(files[CACHE_FILE]) \subseteq StoreKeys(files'[CACHE_FILE])
         /\ \E p \in Procs :
               /\ pc[p] = "replace"
               /\ RequestOK(resp[p])
               /\ StoreKeys(files'[CACHE_FILE]) =
                     StoreKeys(files[CACHE_FILE]) \cup {call[p].key}
               /\ files'[CACHE_FILE].val.map[call[p].key] =
                     Entry(isoformat(now[p]), resp[p].payload)
               /\ \A k \in StoreKeys(files[CACHE_FILE]) \ {call[p].key} :
                     files'[CACHE_FILE].val.map[k] = files[CACHE_FILE].val.map[k]
      ]_vars

(* A second key was added to a store and the first key's entry, written    *)
(* by an earlier call, is still there.                                     *)
C17_Witness ==
    /\ IsStore(files[CACHE_FILE])
    /\ StoreKeys(files[CACHE_FILE]) = Keys
    /\ \E p \in Procs :
          /\ pc[p] = "done" /\ net[p] = 1 /\ ret[p].st = "ret"
          /\ IsStore(before[p])
          /\ StoreKeys(before[p]) = Keys \ {call[p].key}
          /\ \A k \in StoreKeys(before[p]) :
                files[CACHE_FILE].val.map[k] = before[p].val.map[k]
          /\ files[CACHE_FILE].val.map[call[p].key] =
                Entry(isoformat(now[p]), resp[p].payload)

(* Two calls for different keys have both fetched, saved and returned.     *)
BothSaved(p, q) ==
    /\ p # q
    /\ call[p].key # call[q].key
    /\ pc[p] = "done" /\ pc[q] = "done"
    /\ net[p] = 1 /\ net[q] = 1
    /\ ret[p].st = "ret" /\ ret[q].st = "ret"
    /\ order[p].saved > 0 /\ order[q].saved > 0

(* The cache file holds, under the key of p's call, what that call stored. *)
HoldsEntryOf(p) ==
    /\ IsStore(files[CACHE_FILE])
    /\ call[p].key \in StoreKeys(files[CACHE_FILE])
    /\ files[CACHE_FILE].val.map[call[p].key] =
          Entry(isoformat(now[p]), resp[p].payload)

(* C16 as stated: when two calls for different keys have both fetched and  *)
(* saved, the cache file holds both entries, however their load, network   *)
(* and save steps were interleaved.                                        *)
C16_NoLostUpdate ==
    \A p, q \in Procs :
        BothSaved(p, q) => (HoldsEntryOf(p) /\ HoldsEntryOf(q))

(* C16: when two calls for different keys have both fetched and saved and  *)
(* one of them loaded the cache file after the other had saved it, the     *)
(* cache file holds both entries.                                          *)
C16_SequentialKeepsBoth ==
    \A p, q \in Procs :
        (BothSaved(p, q) /\ order[q].seen >= order[p].saved) =>
            (HoldsEntryOf(p) /\ HoldsEntryOf(q))

C16_Witness ==
    \E p, q \in Procs :
        /\ BothSaved(p, q) /\ order[q].seen >= order[p].saved
        /\ before[q] # before[p]
        /\ HoldsEntryOf(p) /\ HoldsEntryOf(q)

(* ============ properties of repeated get_all_races_season ============== *)
(* Two calls in a row have returned, neither forced, and the clock has not *)
(* moved since the first started.                                          *)
TwoCallsAtOnce ==
    /\ season.pc = "returned" /\ ~season.force
    /\ hist.prev.pc = "returned" /\ ~hist.prev.force
    /\ clock = hist.prev_t0

Settled(f, k) ==
    /\ f.ret.st = "ret"
    /\ f.net = 1 =>
          /\ IsStore(hist.before)
          /\ k \in StoreKeys(hist.before)
          /\ hist.before.val.map[k] = Entry(isoformat(hist.prev_t0), f.ret.val)
AllSettled ==
    /\ Settled(hist.prev.schedule, ScheduleKey(Season))
    /\ \A j \in 1..Len(hist.prev.fetches) :
          hist.prev.fetches[j].called =>
              Settled(hist.prev.fetches[j],
                      ResultsKey(Season, hist.prev.scheduled_races[j].round))

PrevOf(i) ==
    { j \in 1..Len(hist.prev.fetches) :
        hist.prev.scheduled_races[j].round = season.scheduled_races[i].round }
PrevKey(j) == ResultsKey(Season, hist.prev.scheduled_races[j].round)

(* The previous call fetched the results of race j over the network and    *)
(* the response carried none; its fetch failed.                            *)
PrevEmpty(j) ==
    /\ hist.prev.fetches[j].called
    /\ hist.prev.fetches[j].net = 1
    /\ hist.prev.fetches[j].ret.st = "ret"
    /\ ~YieldsResults(hist.prev.fetches[j])
PrevFailed(j) ==
    /\ hist.prev.fetches[j].called
    /\ hist.prev.fetches[j].ret = Raise

PrevSaved(j) ==
    /\ IsStore(hist.before)
    /\ PrevKey(j) \in StoreKeys(hist.before)
    /\ hist.before.val.map[PrevKey(j)].form = "dict"
    /\ hist.before.val.map[PrevKey(j)].time.tag = "iso"
    /\ hist.before.val.map[PrevKey(j)].time.t >= hist.prev_t0
    /\ hist.before.val.map[PrevKey(j)].data = hist.prev.fetches[j].ret.val

(* The cache file the running call found has no fresh entry for race j.    *)
NothingFresh(j) ==
    Lookup(get_cache(hist.before), PrevKey(j), hist.t0, RESULTS_EXPIRE,
           FALSE).st = "miss"

LoadDataStep == ncalls' = ncalls + 1 /\ season.pc = "idle" /\ season'.pc = "idle"
LoadRaceDataStep == season.pc \in {"returned", "failed"} /\ season'.pc = "idle"

(* C20: when get_all_races_season fails, load_race_data leaves _all_races  *)
(* as it was and shows the error; when the driver fetch of load_data fails *)
(* both standings lists stay as they were, when the constructor fetch      *)
(* fails after a successful driver fetch the new driver list is in place   *)
(* with the old constructor list, and both panels show the error.          *)
C20_FailedRefreshKeepsData ==
    [][/\ (LoadRaceDataStep /\ season.pc = "failed") =>
             /\ ui'.all_races = ui.all_races
             /\ ui'.r_sub = ErrorMsg
       /\ (LoadDataStep /\ ~ui'.load.d_ok) =>
             /\ ui'.drivers_data = ui.drivers_data
             /\ ui'.constructors_data = ui.constructors_data
             /\ ui'.d_sub = ErrorMsg /\ ui'.c_sub = ErrorMsg
       /\ (LoadDataStep /\ ui'.load.d_ok /\ ~ui'.load.c_ok) =>
             /\ ui'.drivers_data = GetStandings(ui'.load.d.ret.val).list
             /\ ui'.constructors_data = ui.constructors_data
             /\ ui'.d_sub = ErrorMsg /\ ui'.c_sub = ErrorMsg
      ]_vars

(* A forced reload whose constructor request failed: the driver list is    *)
(* the one just fetched, the constructor list an older one, the race list  *)
(* of an earlier load is still shown after a failed reload.                *)
C20_Witness ==
    /\ ui.load.force
    /\ ui.load.d.net = 1 /\ ui.load.d_ok
    /\ ui.load.c.net = 1 /\ ui.load.c.ret = Raise /\ ~ui.load.c_ok
    /\ ui.drivers_data = GetStandings(ui.load.d.ret.val).list
    /\ Len(ui.drivers_data) = 1
    /\ Len(ui.constructors_data) = 2
    /\ ui.c_sub = ErrorMsg

(* ================ properties of get_*_last_results ===================== *)
(* Two windows of one driver or constructor share a key only when they     *)
(* have the same limit and the same offset.                                *)
WindowKeysDistinct ==
    \A k \in Kinds : \A n1, n2 \in Limits : \A o1, o2 \in 0..MaxTotal :
        WindowKey(k, Id(k), n1, o1) = WindowKey(k, Id(k), n2, o2) =>
            (n1 = n2 /\ o1 = o2)

(* C13: the first request is the one-item page under the meta key; the     *)
(* window request asks for limit N at offset max(0, total - N), which is   *)
(* never negative and 0 whenever total <= N, under a key that holds N and  *)
(* the offset; and two windows of one driver or constructor that differ in *)
(* N or in the offset have different keys.                                 *)
C13_LastNWindow ==
    /\ Len(ep.reqs) >= 1 =>
          ep.reqs[1] = Request(MetaKey(ep.kind, Id(ep.kind)), 1, NoOffset)
    /\ Len(ep.reqs) = 2 =>
          LET w == ep.reqs[2]
          IN /\ w.limit = ep.limit
             /\ w.offset.has
             /\ w.offset.n >= 0
             /\ ep.total <= ep.limit => w.offset.n = 0
             /\ ep.total > ep.limit => w.offset.n = ep.total - ep.limit
             /\ w.key = WindowKey(ep.kind, Id(ep.kind), w.limit, w.offset.n)
    /\ WindowKeysDistinct

C13_Witness ==
    /\ ep.pc = "done"
    /\ Len(ep.reqs) = 2
    /\ ep.limit = DEFAULT_LIMIT
    /\ ep.total = MaxTotal
    /\ ep.reqs[2].offset.n = MaxTotal - DEFAULT_LIMIT
    /\ ep.fetches[1].net = 0
    /\ ep.fetches[2].net = 1

(* ====================== properties of the force flag =================== *)
(* Every fetch of the list fs that was made went to the network.           *)
AllFromNetwork(fs) == \A i \in 1..Len(fs) : fs[i].called => fs[i].net = 1

(* C14: each of the four entry points accepts a force flag, and a call     *)
(* with force set sends every fetch it makes to the network: both          *)
(* standings calls of a forced load, the schedule fetch and every results  *)
(* fetch of a forced season call, and the two fetches of a forced last-N   *)
(* call, which must have accepted the flag.                                *)
C14_ForceEveryEntryPoint ==
    /\ ui.load.force => AllFromNetwork(<<ui.load.d, ui.load.c>>)
    /\ (season.pc # "idle" /\ season.force) =>
          AllFromNetwork(<<season.schedule>> \o season.fetches)
    /\ (ep.pc # "idle" /\ ep.force) =>
          (ep.accepted /\ AllFromNetwork(ep.fetches))

====
